---- MODULE Spec2Model ----
(***************************************************************************)
(* Internal wallet service: double-entry ledger, row locks, idempotency.   *)
(*                                                                         *)
(* The store is the relational database behind app/database.py, taken with *)
(* the semantics the code asks of it: SELECT ... FOR UPDATE row locks      *)
(* held until the session commits or rolls back, READ COMMITTED            *)
(* visibility (a statement sees the committed rows plus the rows its own   *)
(* session has flushed), a UNIQUE index on transactions.idempotency_key    *)
(* that ignores NULL, and autoincrement sequences that are not rolled      *)
(* back.  Amounts are Numeric(20, 4) and are counted in minor units        *)
(* (1 = 0.0001).                                                           *)
(***************************************************************************)
EXTENDS Integers, Sequences, FiniteSets, TLC

\* ------------------------------------------------------------------ bounds
\* Number of wallet calls issued by concurrent callers.
MaxCalls == 2
\* Number of wallet calls issued by a caller that waits for each answer.
MaxSerialCalls == 3
\* Number of wallet calls in a scripted sequence.
MaxScenarioCalls == 3
\* Number of POST /seed requests an operator sends when re-running the seed.
MaxSeedRuns == 2

\* --------------------------------------------------------------- constants
\* Minor units in one whole unit: Numeric(20, 4).
Unit == 10000

SYSTEM_TREASURY_NAME == "Treasury"

\* TransactionType
TOP_UP == "top_up"
BONUS  == "bonus"
SPEND  == "spend"

\* AccountType
USER   == "user"
SYSTEM == "system"

\* Python None (a NULL column, an absent Optional).
None == "<None>"
\* No row / no id: autoincrement ids start at 1.
NoId == 0

\* The asset ids run_seed hard-codes.
GOLD     == 1
DIAMONDS == 2
POINTS   == 3

\* Account ids handed out by the accounts sequence to the seed's four rows.
AccountIds == 1..4

VARIABLES
    asset_types,    \* committed rows of asset_types
    accounts,       \* committed rows of accounts
    transactions,   \* committed rows of transactions
    ledger_entries, \* committed rows of ledger_entries
    next_tx_id,     \* transactions.id sequence
    next_entry_id,  \* ledger_entries.id sequence
    locks,          \* account id -> call holding its row lock, or NoId
    calls,          \* call -> the request, its session and its position
    client          \* the callers: the requests they send, and whether they overlap

vars == <<asset_types, accounts, transactions, ledger_entries, next_tx_id,
          next_entry_id, locks, calls, client>>

store == <<asset_types, accounts, transactions, ledger_entries>>

\* ----------------------------------------------------------------- helpers
RECURSIVE SumAmounts(_)
SumAmounts(rows) ==
    IF rows = {} THEN 0
    ELSE LET e == CHOOSE x \in rows : TRUE
         IN  e.amount + SumAmounts(rows \ {e})

RECURSIVE Sorted(_)
Sorted(ids) ==
    IF ids = {} THEN <<>>
    ELSE LET m == CHOOSE x \in ids : \A y \in ids : x <= y
         IN  <<m>> \o Sorted(ids \ {m})

Range(s) == {s[i] : i \in DOMAIN s}

\* Variant: the WHERE clause leaves out the asset type.
GetBalanceAnyAsset(rows, account_id, asset_type_id) ==
    SumAmounts({e \in rows : e.account_id = account_id})

\* AccountRepository.get_balance: coalesce(sum(amount), 0) over the rows of
\* (account, asset type) that the session can see.
GetBalance(rows, account_id, asset_type_id) ==
    LET matching == {e \in rows : /\ e.account_id = account_id
                                  /\ e.asset_type_id = asset_type_id}
    IN  IF matching = {} THEN 0 ELSE SumAmounts(matching)

\* AccountRepository.get_system_by_name: scalar_one_or_none.
GetSystemByName(rows, name) ==
    LET found == {a \in rows : a.type = SYSTEM /\ a.name = name}
    IN  IF found = {} THEN NoId ELSE (CHOOSE a \in found : TRUE).id

\* Variant: the lookup never finds the row.
LookupMisses(rows, idempotency_key) == NoId

\* LedgerRepository.get_transaction_by_idempotency_key: scalar_one_or_none.
GetTransactionByIdempotencyKey(rows, idempotency_key) ==
    LET found == {t \in rows : t.idempotency_key = idempotency_key}
    IN  IF found = {} THEN NoId ELSE (CHOOSE t \in found : TRUE).id

\* `if idempotency_key:` -- None and the empty string are both falsy.
KeySupplied(idempotency_key) ==
    idempotency_key # None /\ idempotency_key # ""

\* Variant: zero is let through.
NegativeAmountRejected(amount) == amount < 0

\* `if amount <= 0: raise ValueError`
AmountRejected(amount) == amount <= 0

\* Variant: the check is dropped.
BalanceNeverInsufficient(balance, amount) == FALSE

\* Variant: the check is off by one.
BalanceInsufficientOrEqual(balance, amount) == balance <= amount

\* `if balance < amount: raise InsufficientBalanceError`
BalanceInsufficient(balance, amount) == balance < amount

\* ordered_ids = sorted(set(account_ids)); the SELECT locks the rows that exist.
\* Variant: the ids are locked in the order the caller lists them.
GivenOrder(account_ids) == account_ids

OrderedIds(account_ids) == Sorted(Range(account_ids))

LockOrder(rows, account_ids) ==
    SelectSeq(OrderedIds(account_ids), LAMBDA i : \E a \in rows : a.id = i)

\* Variant: the operation asks for no lock at all.
LockListEmpty(op, user_account_id, system_id) == <<>>

\* The account_ids list each operation passes to the lock.
LockList(op, user_account_id, system_id) ==
    IF op = SPEND THEN <<user_account_id, system_id>>
    ELSE <<system_id, user_account_id>>

\* Variant: the SELECT is issued without FOR UPDATE and never waits.
LockNeverWaits(holder, c) == TRUE

\* A row lock is granted when no other session holds it.
LockFree(holder, c) == holder = NoId \/ holder = c

\* Variant: a spend credits the treasury in another asset type.
SpendEntriesOtherAsset(system_id, user_account_id, asset_type_id, amount) ==
    << <<user_account_id, asset_type_id, -amount>>,
       <<system_id, IF asset_type_id = GOLD THEN DIAMONDS ELSE GOLD, amount>> >>

\* Variant: a credit pays the user without debiting the treasury.
CreditEntriesMinted(system_id, user_account_id, asset_type_id, amount) ==
    << <<system_id, asset_type_id, 0>>,
       <<user_account_id, asset_type_id, amount>> >>

\* Variant: the signs of a credit are swapped.
CreditEntriesSwapped(system_id, user_account_id, asset_type_id, amount) ==
    << <<system_id, asset_type_id, amount>>,
       <<user_account_id, asset_type_id, -amount>> >>

\* entries = [(account, asset, signed amount), ...] of each operation.
CreditEntries(system_id, user_account_id, asset_type_id, amount) ==
    << <<system_id, asset_type_id, -amount>>,
       <<user_account_id, asset_type_id, amount>> >>

\* Variant: the treasury side of a spend is debited as well.
SpendEntriesBothDebited(system_id, user_account_id, asset_type_id, amount) ==
    << <<user_account_id, asset_type_id, -amount>>,
       <<system_id, asset_type_id, -amount>> >>

SpendEntries(system_id, user_account_id, asset_type_id, amount) ==
    << <<user_account_id, asset_type_id, -amount>>,
       <<system_id, asset_type_id, amount>> >>

\* Variant: every operation records the entries of a credit.
EntriesAlwaysCredit(op, system_id, user_account_id, asset_type_id, amount) ==
    CreditEntries(system_id, user_account_id, asset_type_id, amount)

EntriesOf(op, system_id, user_account_id, asset_type_id, amount) ==
    IF op = SPEND
    THEN SpendEntries(system_id, user_account_id, asset_type_id, amount)
    ELSE CreditEntries(system_id, user_account_id, asset_type_id, amount)

\* The LedgerEntry rows create_transaction_with_entries adds for `entries`.
EntryRows(tx_id, first_id, entries) ==
    {[id             |-> first_id + i - 1,
      transaction_id |-> tx_id,
      account_id     |-> entries[i][1],
      asset_type_id  |-> entries[i][2],
      amount         |-> entries[i][3]] : i \in DOMAIN entries}

\* Variant: the column is declared without unique=True.
UniqueNotEnforced(rows, idempotency_key) == FALSE

\* UNIQUE(idempotency_key): NULLs never collide.
UniqueViolation(rows, idempotency_key) ==
    idempotency_key # None /\ \E t \in rows : t.idempotency_key = idempotency_key

\* Foreign keys of ledger_entries to accounts and asset_types.
ForeignKeysHold(entries) ==
    \A i \in DOMAIN entries :
        /\ \E a \in accounts : a.id = entries[i][1]
        /\ \E t \in asset_types : t.id = entries[i][2]

\* The entries the flush has inserted when it stops at the first one that
\* breaks a foreign key.
InsertedBeforeFailure(entries) ==
    LET ok == {i \in 0..Len(entries) : ForeignKeysHold(SubSeq(entries, 1, i))}
    IN  SubSeq(entries, 1, CHOOSE i \in ok : \A j \in ok : j <= i)


\* ------------------------------------------------------------------- seed
\* The nine add_bonus calls of run_seed, in order; "Seed", "Treasury",
\* "Alice" and "Bob" stand for the rows the seed has just looked up.
SeedBonuses ==
    << <<"Seed", "Treasury", GOLD, 10000 * Unit>>,
       <<"Seed", "Treasury", DIAMONDS, 5000 * Unit>>,
       <<"Seed", "Treasury", POINTS, 20000 * Unit>>,
       <<"Treasury", "Alice", GOLD, 100 * Unit>>,
       <<"Treasury", "Alice", DIAMONDS, 50 * Unit>>,
       <<"Treasury", "Alice", POINTS, 500 * Unit>>,
       <<"Treasury", "Bob", GOLD, 80 * Unit>>,
       <<"Treasury", "Bob", DIAMONDS, 30 * Unit>>,
       <<"Treasury", "Bob", POINTS, 200 * Unit>> >>

SeedAssetTypes ==
    {[id |-> GOLD, name |-> "Gold Coins", symbol |-> "GOLD"],
     [id |-> DIAMONDS, name |-> "Diamonds", symbol |-> "DMND"],
     [id |-> POINTS, name |-> "Loyalty Points", symbol |-> "PTS"]}

\* accounts.id autoincrement: the next id after the rows present.
NextAccountId(rows) ==
    IF rows = {} THEN 1
    ELSE 1 + (CHOOSE m \in {a.id : a \in rows} : \A a \in rows : a.id <= m)

SeedAccounts(first_id) ==
    {[id |-> first_id, type |-> SYSTEM, external_user_id |-> None, name |-> "Treasury"],
     [id |-> first_id + 1, type |-> USER, external_user_id |-> "user_alice", name |-> "Alice"],
     [id |-> first_id + 2, type |-> USER, external_user_id |-> "user_bob", name |-> "Bob"]}

AccountIdByName(rows, name) == (CHOOSE a \in rows : a.name = name).id

\* Variant: the seed never takes the ledger for seeded.
NeverSeeded(rows) == FALSE

\* `select(LedgerEntry).limit(1)` found a row: "Already seeded".
AlreadySeeded(rows) == rows # {}

\* run_seed under get_db: one unit of work, committed when it returns; one of
\* the POST /seed requests the operator sends.
RunSeed ==
    LET types1    == IF asset_types = {} THEN SeedAssetTypes ELSE asset_types
        accounts1 == IF \E a \in accounts : a.name = "Treasury" THEN accounts
                     ELSE accounts \cup SeedAccounts(NextAccountId(accounts))
        seed_acc  == [id |-> NextAccountId(accounts1), type |-> SYSTEM,
                      external_user_id |-> None, name |-> "Seed"]
        accounts2 == accounts1 \cup {seed_acc}
        N         == Len(SeedBonuses)
    IN  /\ client.seeds > 0
        /\ client' = [client EXCEPT !.seeds = @ - 1]
        /\ asset_types' = types1
        /\ IF AlreadySeeded(ledger_entries)
           THEN \* "Already seeded"
                /\ accounts' = accounts1
                /\ UNCHANGED <<transactions, ledger_entries, next_tx_id, next_entry_id>>
           ELSE /\ accounts' = accounts2
                /\ transactions' = transactions \cup
                     {[id |-> next_tx_id + i - 1, type |-> BONUS,
                       idempotency_key |-> None] : i \in 1..N}
                /\ ledger_entries' = ledger_entries \cup UNION
                     {EntryRows(next_tx_id + i - 1, next_entry_id + 2 * (i - 1),
                        << <<AccountIdByName(accounts2, SeedBonuses[i][1]),
                             SeedBonuses[i][3], -SeedBonuses[i][4]>>,
                           <<AccountIdByName(accounts2, SeedBonuses[i][2]),
                             SeedBonuses[i][3], SeedBonuses[i][4]>> >>) : i \in 1..N}
                /\ next_tx_id' = next_tx_id + N
                /\ next_entry_id' = next_entry_id + 2 * N
        /\ UNCHANGED <<locks, calls>>

\* ------------------------------------------------------------------ calls
IdleCall ==
    [pc |-> "idle", op |-> None, user_account_id |-> NoId, asset_type_id |-> NoId,
     amount |-> 0, idempotency_key |-> None,
     existing |-> NoId, system |-> NoId, to_lock |-> <<>>, balance |-> 0,
     tx_id |-> NoId, new_balance |-> 0,
     pending_tx |-> {}, pending_entries |-> {}, error |-> None,
     seeded |-> FALSE, balance_before |-> 0, ticket |-> 0]

Calls == DOMAIN calls

\* What the session of call c reads: committed rows and the rows it flushed.
\* Variant: a session reads the committed rows only, not its own flushed ones.
CommittedEntriesOnly(c) == ledger_entries

VisibleTransactions(c) == transactions \cup calls[c].pending_tx
VisibleEntries(c) == ledger_entries \cup calls[c].pending_entries

Active(c) == calls[c].pc \notin {"idle", "done"}

\* Variant: the session is never closed and keeps its locks.
KeepLocks(c) == locks

\* The locks left when the session of call c ends.
ReleaseLocks(c) == [a \in AccountIds |-> IF locks[a] = c THEN NoId ELSE locks[a]]

\* The class of the exception each raise site of the service and the store
\* throws; InsufficientBalanceError is a subclass of ValueError.
ExceptionClass(error) ==
    CASE error = "InvalidAmount"       -> "ValueError"
      [] error = "TreasuryNotFound"    -> "ValueError"
      [] error = "InsufficientBalance" -> "InsufficientBalanceError"
      [] error = "IntegrityError"      -> "IntegrityError"
      [] OTHER                         -> None

\* Variant: the session commits whatever the handler did.
CommitsAlways(error) == TRUE

\* get_db: commit when the handler returns, rollback when it raises.
Commits(error) == error = None

\* Variant: the operation goes to the treasury without the key lookup.
SkipLookup(idempotency_key) == "treasury"

\* The statement that follows the amount check.
AfterValidation(idempotency_key) ==
    IF KeySupplied(idempotency_key) THEN "lookup" ELSE "treasury"

\* The requests a caller may send now: the fixed ones, and for each offset in
\* client.probe a keyless spend of the balance GET /balance reports plus it.
Offered ==
    client.requests \cup
    {[op |-> SPEND, user_account_id |-> a.id, asset_type_id |-> GOLD,
      amount |-> GetBalance(ledger_entries, a.id, GOLD) + d,
      idempotency_key |-> None] : a \in {x \in accounts : x.type = USER},
                                  d \in client.probe}

\* A request arrives: get_db opens the session and the operation checks the
\* amount.  seeded and balance_before record the committed state it arrives in.
Invoke(c) ==
    /\ calls[c].pc = "idle"
    /\ c > 1 => calls[c - 1].pc # "idle"
    /\ client.serial => \A d \in Calls : ~Active(d)
    /\ \E r \in Offered :
         calls' = [calls EXCEPT ![c] =
            [@ EXCEPT !.op = r.op,
                      !.user_account_id = r.user_account_id,
                      !.asset_type_id = r.asset_type_id,
                      !.amount = r.amount,
                      !.idempotency_key = r.idempotency_key,
                      !.seeded = ledger_entries # {},
                      !.balance_before =
                          GetBalance(ledger_entries, r.user_account_id, r.asset_type_id),
                      !.error = IF AmountRejected(r.amount) THEN "InvalidAmount" ELSE None,
                      !.pc = IF AmountRejected(r.amount) THEN "raised"
                             ELSE AfterValidation(r.idempotency_key)]]
    /\ UNCHANGED <<store, next_tx_id, next_entry_id, locks, client>>

\* existing = get_transaction_by_idempotency_key(db, idempotency_key)
Lookup(c) ==
    /\ calls[c].pc = "lookup"
    /\ LET existing == GetTransactionByIdempotencyKey(VisibleTransactions(c),
                                                      calls[c].idempotency_key)
       IN  calls' = [calls EXCEPT ![c].existing = existing,
                                  ![c].pc = IF existing # NoId THEN "replay"
                                            ELSE "treasury"]
    /\ UNCHANGED <<store, next_tx_id, next_entry_id, locks, client>>

\* if existing: return existing.id, get_balance(...)
Replay(c) ==
    /\ calls[c].pc = "replay"
    /\ calls' = [calls EXCEPT
            ![c].tx_id = calls[c].existing,
            ![c].new_balance = GetBalance(VisibleEntries(c), calls[c].user_account_id,
                                          calls[c].asset_type_id),
            ![c].pc = "returned"]
    /\ UNCHANGED <<store, next_tx_id, next_entry_id, locks, client>>

\* system = get_system_by_name(db, "Treasury"); raise if absent; else the
\* lock statement starts on the ordered ids.
ResolveTreasury(c) ==
    /\ calls[c].pc = "treasury"
    /\ LET system == GetSystemByName(accounts, SYSTEM_TREASURY_NAME)
       IN  calls' = [calls EXCEPT
              ![c].system = system,
              ![c].error = IF system = NoId THEN "TreasuryNotFound" ELSE None,
              ![c].to_lock = IF system = NoId THEN <<>>
                             ELSE LockOrder(accounts,
                                    LockList(calls[c].op, calls[c].user_account_id, system)),
              ![c].pc = IF system = NoId THEN "raised" ELSE "lock"]
    /\ UNCHANGED <<store, next_tx_id, next_entry_id, locks, client>>

\* Variant: every operation goes through the balance check.
AlwaysCheck(op) == "check"

\* What follows the lock statement: the balance check for spend, the write otherwise.
AfterLock(op) == IF op = SPEND THEN "check" ELSE "header"

\* The place of call c among the calls that have taken a lock, by first lock.
NextTicket ==
    1 + Cardinality({d \in DOMAIN calls : calls[d].ticket > 0})

\* SELECT ... ORDER BY id FOR UPDATE takes the next row lock, waiting while
\* another session holds it; after the last one the statement returns.
\* ticket records the order in which the calls took their first lock.
Lock(c) ==
    /\ calls[c].pc = "lock"
    /\ IF calls[c].to_lock = <<>>
       THEN /\ calls' = [calls EXCEPT ![c].pc = AfterLock(calls[c].op)]
            /\ UNCHANGED locks
       ELSE LET a == Head(calls[c].to_lock)
                rest == Tail(calls[c].to_lock)
            IN  /\ LockFree(locks[a], c)
                /\ locks' = [locks EXCEPT ![a] = c]
                /\ calls' = [calls EXCEPT
                      ![c].to_lock = rest,
                      ![c].ticket = IF @ = 0 THEN NextTicket ELSE @,
                      ![c].pc = IF rest = <<>> THEN AfterLock(calls[c].op) ELSE "lock"]
    /\ UNCHANGED <<store, next_tx_id, next_entry_id, client>>

\* _lock_and_ensure_balance after the lock: read the balance, raise if short.
EnsureBalance(c) ==
    /\ calls[c].pc = "check"
    /\ LET balance == GetBalance(VisibleEntries(c), calls[c].user_account_id,
                                 calls[c].asset_type_id)
           short == BalanceInsufficient(balance, calls[c].amount)
       IN  calls' = [calls EXCEPT
              ![c].balance = balance,
              ![c].error = IF short THEN "InsufficientBalance" ELSE None,
              ![c].pc = IF short THEN "raised" ELSE "header"]
    /\ UNCHANGED <<store, next_tx_id, next_entry_id, locks, client>>

\* create_transaction_with_entries, first flush: INSERT the header.  The id
\* is drawn from the sequence whether or not the unique index accepts the row;
\* the INSERT waits while another session holds an uncommitted row with the key.
FlushHeader(c) ==
    /\ calls[c].pc = "header"
    /\ \A d \in Calls \ {c} :
          ~UniqueViolation(calls[d].pending_tx, calls[c].idempotency_key)
    /\ next_tx_id' = next_tx_id + 1
    /\ IF UniqueViolation(VisibleTransactions(c), calls[c].idempotency_key)
       THEN calls' = [calls EXCEPT ![c].error = "IntegrityError", ![c].pc = "raised"]
       ELSE calls' = [calls EXCEPT
              ![c].tx_id = next_tx_id,
              ![c].pending_tx = {[id |-> next_tx_id, type |-> calls[c].op,
                                  idempotency_key |-> calls[c].idempotency_key]},
              ![c].pc = "entries"]
    /\ UNCHANGED <<store, next_entry_id, locks, client>>

\* create_transaction_with_entries, second flush: INSERT the entries, one
\* after the other; the rows inserted before a failure stay in the session.
FlushEntries(c) ==
    /\ calls[c].pc = "entries"
    /\ LET entries == EntriesOf(calls[c].op, calls[c].system, calls[c].user_account_id,
                                calls[c].asset_type_id, calls[c].amount)
       IN  IF ForeignKeysHold(entries)
           THEN /\ next_entry_id' = next_entry_id + Len(entries)
                /\ calls' = [calls EXCEPT
                     ![c].pending_entries =
                         EntryRows(calls[c].tx_id, next_entry_id, entries),
                     ![c].pc = "balance"]
           ELSE \* the refused INSERT has drawn its id from the sequence
                /\ next_entry_id' =
                       next_entry_id + Len(InsertedBeforeFailure(entries)) + 1
                /\ calls' = [calls EXCEPT
                     ![c].pending_entries =
                         EntryRows(calls[c].tx_id, next_entry_id,
                                   InsertedBeforeFailure(entries)),
                     ![c].error = "IntegrityError",
                     ![c].pc = "raised"]
    /\ UNCHANGED <<store, next_tx_id, locks, client>>

\* new_balance = get_balance(...); return tx.id, new_balance
ReadNewBalance(c) ==
    /\ calls[c].pc = "balance"
    /\ calls' = [calls EXCEPT
            ![c].new_balance = GetBalance(VisibleEntries(c), calls[c].user_account_id,
                                          calls[c].asset_type_id),
            ![c].pc = "returned"]
    /\ UNCHANGED <<store, next_tx_id, next_entry_id, locks, client>>

\* Variant: the commit leaves the table holding the session's rows only.
CommitReplaces(rows, pending) == pending

\* session.commit(): the rows the session flushed join the committed ones.
Commit(rows, pending) == rows \cup pending

\* get_db after the handler: session.commit() publishes the flushed rows,
\* session.rollback() discards them; either way the row locks are released.
EndSession(c) ==
    /\ calls[c].pc \in {"returned", "raised"}
    /\ IF Commits(calls[c].error)
       THEN /\ transactions' = Commit(transactions, calls[c].pending_tx)
            /\ ledger_entries' = Commit(ledger_entries, calls[c].pending_entries)
       ELSE UNCHANGED <<transactions, ledger_entries>>
    /\ locks' = ReleaseLocks(c)
    /\ calls' = [calls EXCEPT ![c].pending_tx = {}, ![c].pending_entries = {},
                              ![c].pc = "done"]
    /\ UNCHANGED <<asset_types, accounts, next_tx_id, next_entry_id, client>>

Next ==
    \/ RunSeed
    \/ \E c \in Calls : Invoke(c)
    \/ \E c \in Calls : Lookup(c)
    \/ \E c \in Calls : Replay(c)
    \/ \E c \in Calls : ResolveTreasury(c)
    \/ \E c \in Calls : Lock(c)
    \/ \E c \in Calls : EnsureBalance(c)
    \/ \E c \in Calls : FlushHeader(c)
    \/ \E c \in Calls : FlushEntries(c)
    \/ \E c \in Calls : ReadNewBalance(c)
    \/ \E c \in Calls : EndSession(c)

\* ----------------------------------------------------------------- inputs
Request(op, user_account_id, asset_type_id, amount, idempotency_key) ==
    [op |-> op, user_account_id |-> user_account_id, asset_type_id |-> asset_type_id,
     amount |-> amount, idempotency_key |-> idempotency_key]

\* The ids the accounts sequence gives the seed's rows.
Treasury == 1
Alice == 2
Bob == 3

\* The empty database after create_all, n call slots, and the callers: the
\* requests they send, whether they wait for each answer, and how many times
\* the operator posts /seed.
InitWith(n, requests, probe, serial, seeds) ==
    /\ asset_types = {}
    /\ accounts = {}
    /\ transactions = {}
    /\ ledger_entries = {}
    /\ next_tx_id = 1
    /\ next_entry_id = 1
    /\ locks = [a \in AccountIds |-> NoId]
    /\ calls = [c \in 1..n |-> IdleCall]
    /\ client = [requests |-> requests, probe |-> probe, serial |-> serial,
                 seeds |-> seeds]

\* Concurrent callers: every operation, both users, keyed and keyless.
Requests ==
    {Request(TOP_UP, Alice, GOLD, 60 * Unit, "k1"),
     Request(BONUS, Bob, GOLD, 60 * Unit, None),
     Request(SPEND, Alice, GOLD, 60 * Unit, None),
     Request(SPEND, Alice, GOLD, 40 * Unit, None),
     Request(SPEND, Alice, GOLD, 60 * Unit, "k1"),
     Request(SPEND, Bob, GOLD, 90 * Unit, None)}

Init == InitWith(MaxCalls, Requests, {}, FALSE, 1)

Spec == Init /\ [][Next]_vars

\* A caller that waits for each answer: keyed retries of every operation,
\* rejected amounts, and spends at and just above the balance.
SerialRequests ==
    {Request(TOP_UP, Alice, GOLD, 100 * Unit, "k1"),
     Request(BONUS, Alice, GOLD, 50 * Unit, "k1"),
     Request(SPEND, Alice, GOLD, 30 * Unit, "k1"),
     Request(TOP_UP, Bob, GOLD, 1, None),
     Request(TOP_UP, Alice, GOLD, 0, "k1"),
     Request(BONUS, Alice, GOLD, -1, None),
     Request(SPEND, Alice, GOLD, -1, "k1")}

InitSerial == InitWith(MaxSerialCalls, SerialRequests, {0, 1}, TRUE, 1)

SpecSerial == InitSerial /\ [][Next]_vars

\* The scenario of the specification's testable properties, with one keyed
\* bonus beside it.
ScenarioRequests ==
    {Request(TOP_UP, Alice, GOLD, 100 * Unit, None),
     Request(SPEND, Alice, GOLD, 150 * Unit, None),
     Request(SPEND, Alice, GOLD, 100 * Unit, None),
     Request(BONUS, Bob, GOLD, 10 * Unit, "k1")}

InitScenario == InitWith(MaxScenarioCalls, ScenarioRequests, {}, TRUE, 1)

SpecScenario == InitScenario /\ [][Next]_vars

\* Requests the store refuses after the header is written: an asset type
\* that does not exist (the first entry breaks its foreign key) and an
\* account that does not exist (the second entry does); the operator posts
\* /seed more than once.
UnknownAssetType == POINTS + 1
UnknownAccount == Bob + 2

FaultRequests ==
    {Request(TOP_UP, Alice, GOLD, 60 * Unit, "k1"),
     Request(TOP_UP, Alice, UnknownAssetType, 60 * Unit, None),
     Request(BONUS, UnknownAccount, GOLD, 60 * Unit, None),
     Request(SPEND, Bob, GOLD, 60 * Unit, None)}

InitFaults == InitWith(MaxCalls, FaultRequests, {}, FALSE, MaxSeedRuns)

SpecFaults == InitFaults /\ [][Next]_vars

\* The statements of call c after its request has arrived.
Proceed(c) ==
    \/ Lookup(c)
    \/ Replay(c)
    \/ ResolveTreasury(c)
    \/ Lock(c)
    \/ EnsureBalance(c)
    \/ FlushHeader(c)
    \/ FlushEntries(c)
    \/ ReadNewBalance(c)
    \/ EndSession(c)

\* Concurrent callers whose calls end in success, in InsufficientBalance and
\* in a store failure.  The event loop resumes every coroutine that can run
\* and the store hands a released row lock to a session waiting for it: no
\* call that can take its next step is left waiting for ever.
FairRequests ==
    {Request(TOP_UP, Alice, GOLD, 60 * Unit, "k1"),
     Request(SPEND, Alice, GOLD, 150 * Unit, None)}

InitFair == InitWith(MaxCalls, FairRequests, {}, FALSE, 1)

SpecFair ==
    InitFair /\ [][Next]_vars /\ \A c \in 1..MaxCalls : WF_vars(Proceed(c))

\* Callers that wait for each answer and send: credits that take the
\* treasury's GOLD to zero and below, one key on different operations,
\* accounts, asset types and amounts, the empty string as a key, and an
\* asset type that does not exist.
EdgeRequests ==
    {Request(TOP_UP, Alice, GOLD, 9820 * Unit, "k1"),
     Request(BONUS, Bob, DIAMONDS, 10 * Unit, "k1"),
     Request(BONUS, Bob, GOLD, 1, None),
     Request(TOP_UP, Alice, UnknownAssetType, 60 * Unit, None),
     Request(SPEND, Bob, POINTS, 5 * Unit, "k1"),
     Request(SPEND, Alice, GOLD, 60 * Unit, ""),
     Request(TOP_UP, Alice, GOLD, 60 * Unit, "")}

InitEdge == InitWith(MaxSerialCalls, EdgeRequests, {}, TRUE, 1)

SpecEdge == InitEdge /\ [][Next]_vars

\* ----------------------------------------------------------------- claims
Done(c) == calls[c].pc = "done"

\* Call c wrote a transaction and its session committed it.
Wrote(c) == Done(c) /\ calls[c].error = None /\ calls[c].existing = NoId

\* Call c ended in error kind e.
Failed(c, e) == Done(c) /\ calls[c].error = e

SameRequest(c, d) ==
    /\ calls[c].op = calls[d].op
    /\ calls[c].user_account_id = calls[d].user_account_id
    /\ calls[c].asset_type_id = calls[d].asset_type_id
    /\ calls[c].amount = calls[d].amount
    /\ calls[c].idempotency_key = calls[d].idempotency_key

EntriesOfTransaction(tx_id) == {e \in ledger_entries : e.transaction_id = tx_id}

\* The committed transactions that top_up, bonus or spend created.
WalletTransactions ==
    {t \in transactions : \E c \in Calls : Wrote(c) /\ calls[c].tx_id = t.id}

\* C1: in every committed state, the ledger entries of every transaction that
\* top_up, bonus or spend created sum to zero for each asset type.
C1_ZeroSumPerTransaction ==
    \A t \in WalletTransactions :
        \A a \in {e.asset_type_id : e \in ledger_entries} :
            SumAmounts({e \in EntriesOfTransaction(t.id) : e.asset_type_id = a}) = 0

\* A spend has committed its transaction with a debit and a credit.
C1_Witness ==
    \E t \in WalletTransactions :
        /\ t.type = SPEND
        /\ \E e \in EntriesOfTransaction(t.id) : e.amount < 0
        /\ \E e \in EntriesOfTransaction(t.id) : e.amount > 0

\* C2: in every committed state every USER account's balance is non-negative
\* for every asset type, whatever calls ran, succeeded or failed, and however
\* they interleaved.
C2_UserBalancesNonNegative ==
    \A a \in accounts : a.type = USER =>
        \A t \in asset_types : GetBalance(ledger_entries, a.id, t.id) >= 0

\* Two spends on one user that the balance cannot both cover have run: one
\* committed and the other was refused.
C2_Witness ==
    \E c, d \in Calls :
        /\ Wrote(c) /\ calls[c].op = SPEND
        /\ Failed(d, "InsufficientBalance")
        /\ calls[d].user_account_id = calls[c].user_account_id
        /\ calls[c].amount + calls[d].amount > calls[c].balance_before

\* All the calls are keyless spends of one positive amount on one user and
\* asset type, sent after the seed, and together they exceed the balance the
\* first of them found.
ConcurrentSpends ==
    /\ \A c \in Calls :
        /\ Done(c)
        /\ calls[c].seeded
        /\ calls[c].op = SPEND
        /\ calls[c].idempotency_key = None
        /\ calls[c].amount > 0
        /\ SameRequest(c, 1)
    /\ Cardinality(Calls) * calls[1].amount > calls[1].balance_before

\* C3: when N concurrent keyless spends of amount A on one user and asset
\* type with balance B have all ended and N*A > B, at most B \div A of them
\* succeeded, every other one failed with InsufficientBalance, and the balance
\* is not negative.
C3_ConcurrentSpendsBounded ==
    ConcurrentSpends =>
        LET A == calls[1].amount
            B == calls[1].balance_before
            succeeded == {c \in Calls : calls[c].error = None}
        IN  /\ Cardinality(succeeded) <= B \div A
            /\ \A c \in Calls \ succeeded : calls[c].error = "InsufficientBalance"
            /\ GetBalance(ledger_entries, calls[1].user_account_id,
                          calls[1].asset_type_id) >= 0

\* The spends overlapped: the second was sent before the first ended.
C3_Witness ==
    /\ ConcurrentSpends
    /\ \E c \in Calls : calls[c].error = None
    /\ \E c \in Calls : calls[c].error = "InsufficientBalance"
    /\ \E c \in Calls : calls[c].balance_before = calls[1].balance_before /\ c # 1

\* No call was sent after call c.
Latest(c) == \A d \in Calls : d > c => calls[d].pc = "idle"

HoldsLock(c) == \E a \in AccountIds : locks[a] = c

\* The signed change an operation makes to the user's balance.
Delta(op, amount) == IF op = SPEND THEN -amount ELSE amount

TransactionsWithKey(k) == {t \in transactions : t.idempotency_key = k}

\* Call c + 1 repeats the request of call c, which was sent after the seed
\* with a non-empty key, wrote and committed; c + 1 was sent after c ended
\* and nothing was sent since.
RetryAfterCommit(c) ==
    /\ c + 1 \in Calls
    /\ calls[c].seeded
    /\ Wrote(c)
    /\ Done(c + 1)
    /\ Latest(c + 1)
    /\ SameRequest(c, c + 1)
    /\ calls[c].idempotency_key \notin {None, ""}
    /\ calls[c].amount > 0

\* C4: when an operation is repeated with the same non-empty key after the
\* first call committed, one transaction with the key exists, both calls
\* return its id, and the balance has moved by the amount once.
C4_RetryAfterCommitIsIdempotent ==
    \A c \in Calls : RetryAfterCommit(c) =>
        /\ Cardinality(TransactionsWithKey(calls[c].idempotency_key)) = 1
        /\ calls[c + 1].error = None
        /\ calls[c + 1].tx_id = calls[c].tx_id
        /\ GetBalance(ledger_entries, calls[c].user_account_id, calls[c].asset_type_id)
             = calls[c].balance_before + Delta(calls[c].op, calls[c].amount)

\* A spend was retried with its key after it committed.
C4_Witness ==
    \E c \in Calls : RetryAfterCommit(c) /\ calls[c].op = SPEND

\* C5: whatever the interleaving of calls that carry one key, at most one
\* transaction with the key is committed, at most one of the calls gets its
\* entries into the ledger, and the ledger holds the two entries of one call
\* at most for the key.
C5_OneTransactionPerKey ==
    \A k \in {t.idempotency_key : t \in transactions} \ {None} :
        /\ Cardinality(TransactionsWithKey(k)) <= 1
        /\ Cardinality({c \in Calls : Wrote(c) /\ calls[c].idempotency_key = k}) <= 1
        /\ Cardinality({e \in ledger_entries :
              \E t \in TransactionsWithKey(k) : e.transaction_id = t.id}) <= 2

\* Call d carried the key of call c and looked it up before c committed.
Overlapped(c, d) ==
    /\ c # d
    /\ calls[c].seeded /\ calls[d].seeded
    /\ calls[c].idempotency_key \notin {None, ""}
    /\ calls[c].amount > 0
    /\ SameRequest(c, d)
    /\ Wrote(c)
    /\ Done(d)
    /\ calls[d].existing = NoId

\* Two calls with one key overlapped: both found the key unused, one
\* committed, the other's INSERT was refused.
C5_Witness ==
    \E c, d \in Calls : Overlapped(c, d) /\ calls[d].error = "IntegrityError"

\* C6: when two calls of one operation with one key overlap (the second
\* looks the key up before the first commits), both return the same
\* transaction id and neither ends in an error.
C6_OverlappingRetriesBothSucceed ==
    \A c, d \in Calls : Overlapped(c, d) =>
        /\ calls[d].error = None
        /\ calls[d].tx_id = calls[c].tx_id

\* C7: a call with amount <= 0 ends in InvalidAmount having looked up no
\* key and no treasury, taken no lock and flushed no row, whatever its key and
\* whether or not the Treasury exists; no step of it changes the store.
C7_Rejected ==
    \A c \in Calls : (calls[c].pc # "idle" /\ calls[c].amount <= 0) =>
        /\ calls[c].error = "InvalidAmount"
        /\ calls[c].pc \in {"raised", "done"}
        /\ calls[c].existing = NoId
        /\ calls[c].system = NoId
        /\ calls[c].tx_id = NoId
        /\ calls[c].pending_tx = {} /\ calls[c].pending_entries = {}
        /\ ~HoldsLock(c)

C7_Step ==
    \A c \in Calls :
        (calls'[c] # calls[c] /\ calls'[c].error = "InvalidAmount") =>
            UNCHANGED <<store, next_tx_id, next_entry_id, locks>>

C7_InvalidAmountBeforeLockAndWrite == [](C7_Rejected) /\ [][C7_Step]_vars

\* A call with a rejected amount carried a key that a committed transaction
\* already uses, and another one arrived before the Treasury existed.
C7_Witness ==
    /\ \E c \in Calls :
          /\ Failed(c, "InvalidAmount")
          /\ TransactionsWithKey(calls[c].idempotency_key) # {}
    /\ \E c \in Calls : Failed(c, "InvalidAmount") /\ ~calls[c].seeded

\* Spend c has read the balance under its locks.
Checked(c) ==
    /\ calls[c].op = SPEND
    /\ calls[c].system # NoId
    /\ calls[c].pc \notin {"lock", "check"}

\* C8: a spend whose amount exceeds the balance read under the locks ends in
\* InsufficientBalance with no row flushed; no step of it changes the
\* transactions or the entries; once it has ended it holds no lock.
C8_Refused ==
    \A c \in Calls :
        /\ (Checked(c) /\ calls[c].amount > calls[c].balance) =>
              /\ calls[c].error = "InsufficientBalance"
              /\ calls[c].tx_id = NoId
              /\ calls[c].pending_tx = {} /\ calls[c].pending_entries = {}
              /\ Done(c) => ~HoldsLock(c)
        /\ calls[c].error = "InsufficientBalance" =>
              Checked(c) /\ calls[c].amount > calls[c].balance

C8_Step ==
    \A c \in Calls :
        (calls'[c] # calls[c] /\ calls'[c].error = "InsufficientBalance") =>
            UNCHANGED store

C8_InsufficientBalanceHasNoEffect == [](C8_Refused) /\ [][C8_Step]_vars

\* A refused spend has ended while another call was waiting for its locks.
C8_Witness ==
    \E c, d \in Calls :
        /\ Failed(c, "InsufficientBalance")
        /\ calls[d].pc = "lock"

\* Call c is a keyless spend sent when the balance was b >= 0.0001, it has
\* ended, and nothing was sent since.
BoundarySpend(c) ==
    /\ Done(c)
    /\ Latest(c)
    /\ calls[c].op = SPEND
    /\ calls[c].idempotency_key = None
    /\ calls[c].balance_before >= 1

\* C9: with balance b >= 0.0001, a spend of b succeeds and leaves 0, and a
\* spend of b + 0.0001 fails and leaves b.
C9_SpendAtTheBoundary ==
    \A c \in Calls : BoundarySpend(c) =>
        LET b == calls[c].balance_before
            now == GetBalance(ledger_entries, calls[c].user_account_id,
                              calls[c].asset_type_id)
        IN  /\ calls[c].amount = b =>
                calls[c].error = None /\ calls[c].new_balance = 0 /\ now = 0
            /\ calls[c].amount = b + 1 =>
                calls[c].error = "InsufficientBalance" /\ now = b

\* A spend of b + 0.0001 was refused and then a spend of b emptied the wallet.
C9_Witness ==
    \E c \in Calls :
        /\ c + 1 \in Calls
        /\ Failed(c, "InsufficientBalance")
        /\ calls[c].amount = calls[c].balance_before + 1
        /\ BoundarySpend(c + 1)
        /\ calls[c + 1].amount = calls[c + 1].balance_before
        /\ calls[c + 1].user_account_id = calls[c].user_account_id

\* Call c is the keyless request op(Alice, GOLD, amount), sent after the seed.
ScenarioCall(c, op, amount) ==
    /\ calls[c].seeded
    /\ calls[c].op = op
    /\ calls[c].user_account_id = Alice
    /\ calls[c].asset_type_id = GOLD
    /\ calls[c].amount = amount
    /\ calls[c].idempotency_key = None

\* The calls sent so far are a prefix of topUp(Alice, GOLD, 100);
\* spend(Alice, GOLD, 150); spend(Alice, GOLD, 100).
ScenarioRun ==
    /\ ScenarioCall(1, TOP_UP, 100 * Unit)
    /\ calls[2].pc # "idle" => ScenarioCall(2, SPEND, 150 * Unit)
    /\ calls[3].pc # "idle" => ScenarioCall(3, SPEND, 100 * Unit)

\* The seed has run and no call was sent yet.
JustSeeded == ledger_entries # {} /\ \A c \in Calls : calls[c].pc = "idle"

\* The answer of call c is in and nothing was sent since.
Answered(c) == Done(c) /\ Latest(c)

GoldOf(account_id) == GetBalance(ledger_entries, account_id, GOLD)

\* C10 as stated: the seed leaves the Treasury 10000 GOLD; the top-up returns
\* 100 and leaves the Treasury 9900; the spend of 150 is refused and Alice
\* keeps 100; the spend of 100 succeeds, Alice has 0 and the Treasury 10000.
C10_ScenarioAsStated ==
    /\ JustSeeded => GoldOf(Treasury) = 10000 * Unit
    /\ ScenarioRun =>
        /\ Answered(1) =>
              /\ calls[1].error = None
              /\ calls[1].new_balance = 100 * Unit
              /\ GoldOf(Treasury) = 9900 * Unit
        /\ Answered(2) =>
              /\ calls[2].error = "InsufficientBalance"
              /\ GoldOf(Alice) = 100 * Unit
        /\ Answered(3) =>
              /\ calls[3].error = None
              /\ GoldOf(Alice) = 0
              /\ GoldOf(Treasury) = 10000 * Unit

\* C10 amended: the seed leaves the Treasury 9820 GOLD and Alice 100; the
\* top-up returns 200 and leaves the Treasury 9720; the spend of 150 succeeds
\* and leaves Alice 50 and the Treasury 9870; the spend of 100 is refused with
\* InsufficientBalance and Alice keeps 50.
C10_ScenarioOnTheSeed ==
    /\ JustSeeded =>
          GoldOf(Treasury) = 9820 * Unit /\ GoldOf(Alice) = 100 * Unit
    /\ ScenarioRun =>
        /\ Answered(1) =>
              /\ calls[1].error = None
              /\ calls[1].new_balance = 200 * Unit
              /\ GoldOf(Treasury) = 9720 * Unit
        /\ Answered(2) =>
              /\ calls[2].error = None
              /\ calls[2].new_balance = 50 * Unit
              /\ GoldOf(Alice) = 50 * Unit
              /\ GoldOf(Treasury) = 9870 * Unit
        /\ Answered(3) =>
              /\ calls[3].error = "InsufficientBalance"
              /\ GoldOf(Alice) = 50 * Unit
              /\ GoldOf(Treasury) = 9870 * Unit

\* The three calls of the scenario have been answered.
C10_Witness == ScenarioRun /\ Answered(3)

\* Call c is inside lock_accounts_for_update and the next row it asks for is
\* locked by the session of call d.
WaitsFor(c, d) ==
    /\ c # d
    /\ calls[c].pc = "lock"
    /\ calls[c].to_lock # <<>>
    /\ locks[Head(calls[c].to_lock)] = d

\* C11: no reachable state holds a non-empty set of in-flight calls each of
\* which waits for a row lock held by another call of the set; and the ids a
\* call has still to lock are ascending, without duplicates, and above every
\* id it holds.
C11_NoWaitCycle ==
    /\ \A S \in SUBSET Calls :
           S # {} => \E c \in S : \A d \in S : ~WaitsFor(c, d)
    /\ \A c \in Calls :
           LET rest == calls[c].to_lock
           IN  /\ \A i, j \in DOMAIN rest : i < j => rest[i] < rest[j]
               /\ \A i \in DOMAIN rest :
                      \A a \in AccountIds : locks[a] = c => a < rest[i]

\* A call waits for a lock another call holds, and the two calls listed the
\* accounts they share in opposite orders.
C11_Witness ==
    \E c, d \in Calls :
        /\ WaitsFor(c, d)
        /\ calls[c].seeded /\ calls[d].seeded
        /\ calls[c].op = SPEND /\ calls[d].op # SPEND
        /\ calls[c].user_account_id = calls[d].user_account_id

\* Call c drew transaction id tx_id for a header it flushed and has not
\* committed: it is still in flight, or it ended in an error.
Uncommitted(c) ==
    /\ calls[c].existing = NoId
    /\ calls[c].tx_id # NoId
    /\ ~Wrote(c)

\* C12: in every committed state each transaction written by top_up, bonus
\* or spend has exactly its two ledger entries and every ledger entry belongs
\* to a committed transaction; the header and the entries of a call that has
\* not committed, or that failed after the header or between the two entry
\* writes, are in no committed table and in no other call's view.
C12_AllOrNothing ==
    /\ \A t \in WalletTransactions :
           Cardinality(EntriesOfTransaction(t.id)) = 2
    /\ \A e \in ledger_entries :
           \E t \in transactions : t.id = e.transaction_id
    /\ \A c \in Calls :
           Uncommitted(c) =>
               /\ \A t \in transactions : t.id # calls[c].tx_id
               /\ \A e \in ledger_entries : e.transaction_id # calls[c].tx_id
               /\ \A d \in Calls \ {c} :
                      /\ \A t \in VisibleTransactions(d) : t.id # calls[c].tx_id
                      /\ \A e \in VisibleEntries(d) :
                             e.transaction_id # calls[c].tx_id
    /\ \A c \in Calls :
           Done(c) => calls[c].pending_tx = {} /\ calls[c].pending_entries = {}

\* One call wrote and committed its transaction; another has failed between
\* its two entry writes and holds the header and one entry in its session.
C12_Witness ==
    \E c, d \in Calls :
        /\ Wrote(c)
        /\ calls[c].seeded
        /\ calls[d].pc = "raised"
        /\ calls[d].error = "IntegrityError"
        /\ calls[d].pending_tx # {}
        /\ Cardinality(calls[d].pending_entries) = 1

\* The entries of a ledger that carry the account and the asset type.
EntriesFor(rows, account_id, asset_type_id) ==
    {e \in rows : e.account_id = account_id /\ e.asset_type_id = asset_type_id}

\* The running sum of the signed amounts of a set of entries, taken entry by
\* entry in id order; zero for no entry.
RECURSIVE RunningSum(_)
RunningSum(rows) ==
    IF rows = {} THEN 0
    ELSE LET last == CHOOSE e \in rows : \A x \in rows : x.id <= e.id
         IN  RunningSum(rows \ {last}) + last.amount

\* The accounts and asset types a caller can name: the rows that exist and
\* the ids the requests carry.
NamedAccounts == AccountIds \cup {r.user_account_id : r \in client.requests}
NamedAssetTypes ==
    {GOLD, DIAMONDS, POINTS} \cup {r.asset_type_id : r \in client.requests}

\* The ledgers get_balance can be run on: the committed one and the one each
\* open session sees.
Ledgers == {ledger_entries} \cup {VisibleEntries(c) : c \in Calls}

\* C13: for every account and asset type, in every reachable state,
\* get_balance is the sum of the signed amounts of all ledger entries with
\* that account and asset type, and zero when there is no such entry; the
\* new balance a call is about to return is that sum over what it sees.
C13_BalanceIsLedgerSum ==
    /\ \A rows \in Ledgers : \A a \in NamedAccounts : \A t \in NamedAssetTypes :
           LET balance == GetBalance(rows, a, t)
               entries == EntriesFor(rows, a, t)
           IN  /\ balance = RunningSum(entries)
               /\ entries = {} => balance = 0
    /\ \A c \in Calls :
           calls[c].pc = "returned" /\ calls[c].existing = NoId =>
               calls[c].new_balance =
                   RunningSum(EntriesFor(VisibleEntries(c), calls[c].user_account_id,
                                         calls[c].asset_type_id))

\* After the seed and a committed write, a call sees entries of its own next
\* to the committed ones, an account holds entries in several asset types
\* with different sums, and an account has no entry at all.
C13_Witness ==
    /\ \E c \in Calls : Wrote(c) /\ calls[c].seeded
    /\ \E c \in Calls : calls[c].pc = "returned" /\ calls[c].pending_entries # {}
    /\ GetBalance(ledger_entries, Alice, GOLD) # GetBalance(ledger_entries, Alice, POINTS)
    /\ GetBalance(ledger_entries, Alice, GOLD) > 0
    /\ \E a \in NamedAccounts : \A e \in ledger_entries : e.account_id # a

\* Call d passed the amount check with a non-empty key that call c, which
\* ended before d was sent, had committed a transaction under.
ReplayOf(d, c) ==
    /\ c < d
    /\ Wrote(c)
    /\ Done(d)
    /\ KeySupplied(calls[d].idempotency_key)
    /\ calls[d].idempotency_key = calls[c].idempotency_key
    /\ ~AmountRejected(calls[d].amount)

\* The writes committed after call c and before call d on d's account and
\* asset type.
WritesBetween(c, d) ==
    {e \in Calls : /\ c < e /\ e < d
                   /\ Wrote(e)
                   /\ calls[e].user_account_id = calls[d].user_account_id
                   /\ calls[e].asset_type_id = calls[d].asset_type_id}

RECURSIVE SumDeltas(_)
SumDeltas(S) ==
    IF S = {} THEN 0
    ELSE LET e == CHOOSE x \in S : TRUE
         IN  Delta(calls[e].op, calls[e].amount) + SumDeltas(S \ {e})

C14_Replayed ==
    \A c, d \in Calls :
        ReplayOf(d, c) =>
            /\ calls[d].existing = calls[c].tx_id
            /\ calls[d].error = None
            /\ calls[d].tx_id = calls[c].tx_id
            /\ calls[d].new_balance = calls[d].balance_before
            /\ (/\ calls[c].user_account_id = calls[d].user_account_id
                /\ calls[c].asset_type_id = calls[d].asset_type_id)
                   => calls[d].new_balance =
                          calls[c].new_balance + SumDeltas(WritesBetween(c, d))

\* Every step of a call that found a transaction under its key leaves the
\* tables, the sequences and the locks as they are, and what it returns is
\* the id found and the balance of the ledger at that moment.
C14_Step ==
    \A d \in Calls :
        (calls'[d] # calls[d] /\ calls'[d].existing # NoId) =>
            /\ UNCHANGED <<store, next_tx_id, next_entry_id, locks>>
            /\ calls[d].pc = "replay" =>
                   /\ calls'[d].tx_id = calls[d].existing
                   /\ calls'[d].new_balance =
                          GetBalance(ledger_entries, calls[d].user_account_id,
                                     calls[d].asset_type_id)

\* C14: a call that passes the amount check with a non-empty key that
\* already identifies a committed transaction writes no transaction and no
\* ledger entry, and returns that transaction's id with the user's balance
\* at the time of the replay: the balance the original returned plus every
\* change committed since.
C14_ReplayReturnsCurrentBalance ==
    [](C14_Replayed) /\ [][C14_Step]_vars

\* A replay returned a balance other than the one the original returned.
C14_Witness ==
    \E c, d \in Calls :
        /\ ReplayOf(d, c)
        /\ calls[c].user_account_id = calls[d].user_account_id
        /\ calls[c].asset_type_id = calls[d].asset_type_id
        /\ calls[d].existing # NoId
        /\ calls[d].new_balance # calls[c].new_balance

\* The step in which get_db commits the transaction call c wrote.
CommitOf(c) ==
    /\ calls[c].pc = "returned"
    /\ calls'[c].pc = "done"
    /\ calls[c].existing = NoId
    /\ calls[c].error = None

\* When a writing call commits, the new balance it returns is the user's
\* committed balance before the commit plus (top_up, bonus) or minus (spend)
\* the amount, and the sum of the user's entries in the state it commits.
C15_Step ==
    \A c \in Calls :
        CommitOf(c) =>
            LET u == calls[c].user_account_id
                a == calls[c].asset_type_id
            IN  /\ calls[c].new_balance =
                       GetBalance(ledger_entries, u, a)
                           + Delta(calls[c].op, calls[c].amount)
                /\ calls[c].new_balance = GetBalance(ledger_entries', u, a)
                /\ calls[c].new_balance =
                       RunningSum(EntriesFor(ledger_entries', u, a))
                /\ calls[c].op = SPEND =>
                       calls[c].new_balance = calls[c].balance - calls[c].amount

\* C15: on success of a call that writes, under any interleaving with other
\* calls, the new balance returned is the user's balance before the call
\* took effect plus the amount (top_up, bonus) or minus the amount (spend),
\* and is the sum of the user's ledger entries for the asset type in the
\* state the call commits.
C15_NewBalanceAfterWrite ==
    [][C15_Step]_vars

\* Two calls on one account interleaved: the later one to commit returned a
\* balance that includes the other's change, made after it was sent.
C15_Witness ==
    \E c, d \in Calls :
        /\ c # d
        /\ Wrote(c) /\ Wrote(d)
        /\ calls[c].user_account_id = calls[d].user_account_id
        /\ calls[c].asset_type_id = calls[d].asset_type_id
        /\ calls[d].balance_before = calls[c].balance_before
        /\ calls[d].new_balance =
               calls[c].new_balance + Delta(calls[d].op, calls[d].amount)
        /\ calls[d].new_balance #
               calls[d].balance_before + Delta(calls[d].op, calls[d].amount)

\* No two rows of a table share an id.
UniqueIds(rows) == \A x, y \in rows : x.id = y.id => x = y

\* Every committed row is still there, with all its fields, after the step.
C16_Step ==
    /\ transactions \subseteq transactions'
    /\ ledger_entries \subseteq ledger_entries'

\* C16: transactions and ledger entries are append-only: across every step
\* of every execution each committed transaction and each committed ledger
\* entry stays present with all its fields unchanged, and no second row ever
\* takes the id of an existing one.
C16_AppendOnly ==
    [](UniqueIds(transactions) /\ UniqueIds(ledger_entries)) /\ [][C16_Step]_vars

\* The seed has been posted twice, one call committed a transaction on top
\* of the seed's rows and another was rolled back after it had written.
C16_Witness ==
    /\ client.seeds = 0
    /\ \E c, d \in Calls :
           /\ Wrote(c)
           /\ Failed(d, "IntegrityError")
           /\ calls[d].tx_id # NoId
    /\ Cardinality(transactions) = Len(SeedBonuses) + 1

\* The step is a run of the seed that is not the first one.
SeedRunsAgain ==
    /\ client'.seeds < client.seeds
    /\ client.seeds < MaxSeedRuns

\* C17: a run of the seed after the first one, in whatever state the wallet
\* operations have left, adds no asset type, no account, no transaction and
\* no ledger entry, draws no id, and changes no balance.
C17_SeedIsIdempotent ==
    [][SeedRunsAgain =>
          /\ UNCHANGED <<asset_types, accounts, transactions, ledger_entries>>
          /\ UNCHANGED <<next_tx_id, next_entry_id>>
          /\ \A a \in NamedAccounts : \A t \in NamedAssetTypes :
                 GetBalance(ledger_entries', a, t) = GetBalance(ledger_entries, a, t)]_vars

\* The seed has run to the last request, after a wallet call that arrived
\* on the seeded ledger had committed a transaction, and while another call
\* holds rows it has not committed.
C17_Witness ==
    /\ client.seeds = 0
    /\ \E c, d \in Calls :
           /\ Wrote(c) /\ calls[c].seeded
           /\ calls[d].pending_tx # {}
    /\ Cardinality(transactions) = Len(SeedBonuses) + 1

\* Spend call c has read the balance for its sufficiency check and its
\* session has not ended yet.
AfterRead(c) ==
    /\ calls[c].op = SPEND
    /\ calls[c].existing = NoId
    /\ \/ calls[c].pc \in {"header", "entries", "balance", "returned"}
       \/ /\ calls[c].pc = "raised"
          /\ calls[c].error \in {"InsufficientBalance", "IntegrityError"}

\* Call c holds the row locks of the treasury and of its user account.
HoldsBoth(c) ==
    /\ locks[calls[c].system] = c
    /\ locks[calls[c].user_account_id] = c

\* The read is made, and the time up to the end of the session is spent,
\* with both locks held.
C18_ReadUnderLocks ==
    \A c \in Calls :
        (calls[c].op = SPEND /\ calls[c].pc = "check") \/ AfterRead(c)
            => HoldsBoth(c)

\* Between the read and the end of the session, a ledger entry committed
\* for the user account is one of the spend's own.
C18_Step ==
    \A c \in Calls :
        AfterRead(c) =>
            \A e \in ledger_entries' \ ledger_entries :
                e.account_id = calls[c].user_account_id
                    => e.transaction_id = calls[c].tx_id /\ calls'[c].pc = "done"

\* C18: in every spend the balance read for the sufficiency check is made
\* after the call holds the locks of the treasury and of the user account,
\* and between that read and the call's commit or rollback no other call
\* commits a ledger entry for that user account.
C18_SpendReadsUnderLocks ==
    [](C18_ReadUnderLocks) /\ [][C18_Step]_vars

\* A spend has read the balance and not ended, while another call on the
\* same user account waits for a lock the spend holds.
C18_Witness ==
    \E c, d \in Calls :
        /\ AfterRead(c)
        /\ calls[c].pc = "returned"
        /\ WaitsFor(d, c)
        /\ calls[d].user_account_id = calls[c].user_account_id
        /\ calls[d].asset_type_id = calls[c].asset_type_id

\* The calls that took a lock, and the one that took its first lock k-th.
Ticketed == {c \in Calls : calls[c].ticket > 0}
CallAt(k) == CHOOSE c \in Calls : calls[c].ticket = k

\* The committed rows that no wallet call wrote: the ledger the calls start on.
SeedRows ==
    {e \in ledger_entries :
        \A c \in Calls : ~(Wrote(c) /\ calls[c].tx_id = e.transaction_id)}

\* The entries call c asks the ledger to record, and what they add to the
\* balance of account u in asset type a.
ContentOf(c) ==
    EntriesOf(calls[c].op, calls[c].system, calls[c].user_account_id,
              calls[c].asset_type_id, calls[c].amount)

EffectOn(c, u, a) ==
    LET e == ContentOf(c)
        part(i) == IF e[i][1] = u /\ e[i][2] = a THEN e[i][3] ELSE 0
    IN  part(1) + part(2)

RECURSIVE SumEffects(_, _, _)
SumEffects(W, u, a) ==
    IF W = {} THEN 0
    ELSE LET c == CHOOSE x \in W : TRUE
         IN  EffectOn(c, u, a) + SumEffects(W \ {c}, u, a)

\* What call c does when it runs alone, from start to end, on the seed's
\* ledger plus the transactions of the calls in W.
SerialOutcome(c, W) ==
    LET key     == calls[c].idempotency_key
        keys    == {calls[w].idempotency_key : w \in W}
        balance == GetBalance(SeedRows, calls[c].user_account_id,
                              calls[c].asset_type_id)
                   + SumEffects(W, calls[c].user_account_id, calls[c].asset_type_id)
    IN  IF AmountRejected(calls[c].amount) THEN "InvalidAmount"
        ELSE IF KeySupplied(key) /\ key \in keys THEN "replayed"
        ELSE IF calls[c].op = SPEND /\ BalanceInsufficient(balance, calls[c].amount)
             THEN "InsufficientBalance"
        ELSE IF key # None /\ key \in keys THEN "IntegrityError"
        ELSE IF ~ForeignKeysHold(ContentOf(c)) THEN "IntegrityError"
        ELSE "written"

\* The first k calls, in the order of their first lock, run one at a time:
\* the calls that wrote and the outcome of each.
RECURSIVE SerialRun(_)
SerialRun(k) ==
    IF k = 0 THEN [wrote |-> {}, outcome |-> <<>>]
    ELSE LET prev == SerialRun(k - 1)
             c    == CallAt(k)
             r    == SerialOutcome(c, prev.wrote)
         IN  [wrote   |-> IF r = "written" THEN prev.wrote \cup {c} ELSE prev.wrote,
              outcome |-> Append(prev.outcome, r)]

\* The account, asset type and amount of the committed entries of a transaction.
CommittedContent(tx_id) ==
    {<<e.account_id, e.asset_type_id, e.amount>> : e \in EntriesOfTransaction(tx_id)}

\* C19: once the calls that took locks have ended, the transactions and
\* entries in the ledger (their contents; ids aside) and the success or
\* failure of each call without an idempotency key are those of running the
\* same calls one at a time in the order in which they took their locks.
C19_Serialized ==
    (\A c \in Ticketed : Done(c)) =>
        LET run == SerialRun(Cardinality(Ticketed))
        IN  /\ \A c \in Ticketed :
                   LET r == run.outcome[calls[c].ticket]
                   IN  /\ Wrote(c) <=> r = "written"
                       /\ calls[c].idempotency_key = None =>
                              calls[c].error = (IF r = "written" THEN None ELSE r)
                       /\ Wrote(c) =>
                              /\ CommittedContent(calls[c].tx_id) = Range(ContentOf(c))
                              /\ \E t \in transactions :
                                     /\ t.id = calls[c].tx_id
                                     /\ t.type = calls[c].op
                                     /\ t.idempotency_key = calls[c].idempotency_key
            /\ Cardinality({e.transaction_id : e \in ledger_entries \ SeedRows})
                   = Cardinality(run.wrote)
            /\ Cardinality(ledger_entries \ SeedRows) = 2 * Cardinality(run.wrote)
            /\ \A a \in NamedAccounts : \A t \in NamedAssetTypes :
                   GetBalance(ledger_entries, a, t) =
                       GetBalance(SeedRows, a, t) + SumEffects(run.wrote, a, t)

\* Two spends arrived on the same balance, each affordable on its own; the
\* one that locked first wrote and the other, run after it, was refused.
C19_Witness ==
    \E c, d \in Ticketed :
        /\ calls[c].ticket < calls[d].ticket
        /\ Wrote(c)
        /\ Failed(d, "InsufficientBalance")
        /\ calls[d].idempotency_key = None
        /\ calls[d].user_account_id = calls[c].user_account_id
        /\ calls[d].asset_type_id = calls[c].asset_type_id
        /\ calls[d].balance_before = calls[c].balance_before
        /\ calls[d].balance_before >= calls[d].amount

\* The committed transaction of a call that wrote: one header of the
\* operation's kind, and two entries in the call's asset type, the user's
\* signed by the operation and the treasury's opposite.
C20_Written ==
    \A c \in Calls :
        Wrote(c) =>
            LET headers == {t \in transactions : t.id = calls[c].tx_id}
                entries == EntriesOfTransaction(calls[c].tx_id)
                signed  == IF calls[c].op = SPEND THEN -calls[c].amount
                           ELSE calls[c].amount
            IN  /\ Cardinality(headers) = 1
                /\ calls[c].op \in {TOP_UP, BONUS, SPEND}
                /\ \A t \in headers : t.type = calls[c].op
                /\ Cardinality(entries) = 2
                /\ \A e \in entries : e.asset_type_id = calls[c].asset_type_id
                /\ \E e \in entries :
                       /\ e.account_id = calls[c].user_account_id
                       /\ e.amount = signed
                /\ \E e \in entries :
                       /\ e.account_id = GetSystemByName(accounts, SYSTEM_TREASURY_NAME)
                       /\ e.amount = -signed
                /\ \A d \in Calls \ {c} : Wrote(d) => calls[d].tx_id # calls[c].tx_id

\* The commit of a writing call adds one transaction and two entries.
C20_Step ==
    \A c \in Calls :
        CommitOf(c) =>
            /\ Cardinality(transactions' \ transactions) = 1
            /\ Cardinality(ledger_entries' \ ledger_entries) = 2

\* C20: every successful writing call creates exactly one transaction whose
\* kind is that of the operation and exactly two ledger entries with the
\* call's asset type: for top_up and bonus the treasury entry is -amount and
\* the user entry +amount, for spend the user entry is -amount and the
\* treasury entry +amount.
C20_OneHeaderTwoEntries ==
    [](C20_Written) /\ [][C20_Step]_vars

\* A spend and a credit have both been written and committed.
C20_Witness ==
    \E c, d \in Calls :
        /\ Wrote(c) /\ calls[c].op = SPEND
        /\ Wrote(d) /\ calls[d].op \in {TOP_UP, BONUS}

\* Call c passed the amount check, found no transaction under its key and
\* looked the treasury up when no SYSTEM account named "Treasury" existed.
FoundNoTreasury(c) ==
    /\ Done(c)
    /\ ~AmountRejected(calls[c].amount)
    /\ calls[c].existing = NoId
    /\ calls[c].system = NoId

\* C21: when no SYSTEM account named "Treasury" exists, a call with a
\* positive amount and a key that matches no transaction fails with
\* TreasuryNotFound, an error kind distinct from that of InvalidAmount and
\* of InsufficientBalance, before any lock or balance check, and writes
\* nothing.
C21_TreasuryNotFoundIsDistinctKind ==
    \A c \in Calls :
        FoundNoTreasury(c) =>
            /\ calls[c].error = "TreasuryNotFound"
            /\ calls[c].ticket = 0
            /\ calls[c].tx_id = NoId
            /\ ExceptionClass(calls[c].error) # ExceptionClass("InvalidAmount")
            /\ ExceptionClass(calls[c].error) # ExceptionClass("InsufficientBalance")

\* Call c is a top_up or a bonus with a positive amount, sent to a ledger
\* with a treasury, under no key or a key no earlier call has committed.
\* (Calls are sent one at a time here, in the order of their numbers.)
CreditOnUnusedKey(c) ==
    /\ Done(c)
    /\ calls[c].op \in {TOP_UP, BONUS}
    /\ ~AmountRejected(calls[c].amount)
    /\ calls[c].seeded
    /\ \/ calls[c].idempotency_key = None
       \/ \A d \in Calls :
             (d < c /\ Wrote(d)) => calls[d].idempotency_key # calls[c].idempotency_key

\* The rows call c names exist.
NamesExistingRows(c) ==
    /\ \E a \in accounts : a.id = calls[c].user_account_id
    /\ \E t \in asset_types : t.id = calls[c].asset_type_id

\* C22 as stated: a top_up or bonus with a positive amount, an existing
\* treasury and an unused key always succeeds.
C22_CreditAlwaysSucceeds ==
    \A c \in Calls : CreditOnUnusedKey(c) => Wrote(c)

\* C22: top_up and bonus make no balance check on the treasury: with a
\* positive amount, an existing treasury, an unused key and an existing
\* user account and asset type they succeed, never ending in
\* InsufficientBalance, also when the treasury's balance for the asset type
\* is zero or becomes negative; with an unknown asset type they end in a
\* store failure, not in InsufficientBalance.
C22_CreditNeverChecksTreasury ==
    \A c \in Calls :
        CreditOnUnusedKey(c) =>
            /\ calls[c].error # "InsufficientBalance"
            /\ NamesExistingRows(c) => Wrote(c)
            /\ ~NamesExistingRows(c) => Failed(c, "IntegrityError")

\* A credit was written when the treasury held nothing, and left it negative.
C22_Witness ==
    \E c, d \in Calls :
        /\ c < d
        /\ CreditOnUnusedKey(c) /\ Wrote(c)
        /\ CreditOnUnusedKey(d) /\ Wrote(d)
        /\ calls[c].amount = GetBalance(SeedRows, Treasury, GOLD)
        /\ calls[d].asset_type_id = GOLD
        /\ GetBalance(ledger_entries, Treasury, GOLD) < 0

\* Calls c and d differ in operation, account, asset type and amount.
DiffersThroughout(c, d) ==
    /\ calls[c].op # calls[d].op
    /\ calls[c].user_account_id # calls[d].user_account_id
    /\ calls[c].asset_type_id # calls[d].asset_type_id
    /\ calls[c].amount # calls[d].amount

\* C23: the key is matched on the key alone: once a non-empty key
\* identifies a committed transaction, a later call of any operation with
\* that key, for any account, asset type and positive amount, takes no lock,
\* writes nothing and returns the original transaction's id with the
\* current balance of the account and asset type it names itself.
C23_KeyAloneDecides ==
    \A c, d \in Calls :
        ReplayOf(d, c) =>
            /\ calls[d].error = None
            /\ calls[d].existing = calls[c].tx_id
            /\ calls[d].tx_id = calls[c].tx_id
            /\ calls[d].ticket = 0
            /\ ~Wrote(d)
            /\ Cardinality(TransactionsWithKey(calls[d].idempotency_key)) = 1
            /\ \A t \in TransactionsWithKey(calls[d].idempotency_key) :
                   t.id = calls[c].tx_id /\ t.type = calls[c].op
            /\ calls[d].new_balance = calls[d].balance_before
            /\ Latest(d) =>
                   /\ calls[d].new_balance =
                          GetBalance(ledger_entries, calls[d].user_account_id,
                                     calls[d].asset_type_id)
                   /\ Cardinality(ledger_entries \ SeedRows) =
                          2 * Cardinality({e \in Calls : Wrote(e)})

\* A spend replayed the key of a top_up made for another account, asset
\* type and amount, and was answered with the balance of its own pair.
C23_Witness ==
    \E c, d \in Calls :
        /\ ReplayOf(d, c)
        /\ DiffersThroughout(c, d)
        /\ calls[d].op = SPEND
        /\ calls[d].new_balance # calls[c].new_balance
        /\ calls[d].new_balance =
               GetBalance(SeedRows, calls[d].user_account_id, calls[d].asset_type_id)

\* Call d was sent with the empty string as its key and a positive amount
\* after call c, sent with the empty string too, had written and committed.
EmptyKeyAgain(d, c) ==
    /\ c < d
    /\ Wrote(c)
    /\ Done(d)
    /\ calls[c].idempotency_key = ""
    /\ calls[d].idempotency_key = ""
    /\ ~AmountRejected(calls[d].amount)

\* C24: the short-circuit applies to the empty string as to every other
\* key: after a call with key "" has committed, a second call with key ""
\* finds the transaction, writes nothing, returns its id and does not end in
\* a store failure.
C24_EmptyKeyShortCircuits ==
    \A c, d \in Calls :
        EmptyKeyAgain(d, c) =>
            /\ calls[d].existing = calls[c].tx_id
            /\ calls[d].tx_id = calls[c].tx_id
            /\ calls[d].error = None
            /\ ExceptionClass(calls[d].error) # "IntegrityError"

\* Call c asks for the row lock of account a, which another session holds.
BlockedOn(c, a) ==
    /\ calls[c].pc = "lock"
    /\ calls[c].to_lock # <<>>
    /\ Head(calls[c].to_lock) = a
    /\ locks[a] \notin {NoId, c}

\* The accounts whose rows the calls of SpecFair lock.
LockedAccounts == {Treasury} \cup {r.user_account_id : r \in FairRequests}

\* A call that has ended holds no lock, whatever its outcome.
C25_Released == \A c \in Calls : Done(c) => ~HoldsLock(c)

\* C25: every call releases its locks when it completes, by commit or by
\* rollback, on every outcome; under fair scheduling every call blocked on a
\* lock eventually acquires it and every call eventually terminates.
C25_LocksReleasedAndCallsEnd ==
    /\ [](C25_Released)
    /\ \A c \in 1..MaxCalls : \A a \in LockedAccounts :
           BlockedOn(c, a) ~> (locks[a] = c)
    /\ \A c \in 1..MaxCalls : Active(c) ~> Done(c)

\* A call waits for a lock held by a spend that is about to be rolled back
\* for InsufficientBalance.
C25_Witness ==
    \E c, d \in Calls :
        /\ BlockedOn(d, Treasury)
        /\ locks[Treasury] = c
        /\ calls[c].pc = "raised"
        /\ calls[c].error = "InsufficientBalance"

\* The asset types that exist or that an entry names.
LedgerAssetTypes ==
    {t.id : t \in asset_types} \cup {e.asset_type_id : e \in ledger_entries}

\* C26: in every committed state, from the empty ledger on and with the
\* seed's funding through the Seed account counted, the ledger entry
\* amounts of all accounts sum to zero for each asset type: no sequence of
\* seed, top_up, bonus and spend creates or destroys value.
C26_ClosedSystem ==
    \A t \in LedgerAssetTypes :
        SumAmounts({e \in ledger_entries : e.asset_type_id = t}) = 0

\* On the seeded ledger a call has moved value between the treasury and a
\* user, and another call has been rolled back after it took its locks.
C26_Witness ==
    /\ GetBalance(ledger_entries, Treasury, GOLD) # GetBalance(SeedRows, Treasury, GOLD)
    /\ GetBalance(SeedRows, Treasury, GOLD) > 0
    /\ GetBalance(ledger_entries, GetSystemByName(accounts, "Seed"), GOLD) < 0
    /\ \E c, d \in Calls :
           /\ Wrote(c)
           /\ Done(d) /\ calls[d].error # None /\ calls[d].ticket > 0

\* The step in which the session of call c, which the handler left without
\* an error, is committed.
SuccessOf(c) ==
    /\ calls[c].pc = "returned"
    /\ calls'[c].pc = "done"
    /\ calls[c].error = None

\* What a successful call adds to the balance of account x in asset type t:
\* the signed amount for its user, the opposite for the treasury, in its
\* own asset type; nothing elsewhere, and nothing at all for a replay.
ExpectedChange(c, x, t) ==
    LET d == IF calls[c].existing # NoId THEN 0
             ELSE Delta(calls[c].op, calls[c].amount)
    IN  IF t # calls[c].asset_type_id THEN 0
        ELSE IF x = calls[c].user_account_id THEN d
        ELSE IF x = calls[c].system THEN -d
        ELSE 0

C27_Step ==
    \A c \in Calls :
        /\ SuccessOf(c) =>
               /\ \A x \in NamedAccounts : \A t \in NamedAssetTypes :
                      GetBalance(ledger_entries', x, t) =
                          GetBalance(ledger_entries, x, t) + ExpectedChange(c, x, t)
               /\ calls[c].existing = NoId =>
                      /\ calls[c].system = Treasury
                      /\ GetBalance(ledger_entries', calls[c].user_account_id,
                                     calls[c].asset_type_id)
                            # GetBalance(ledger_entries, calls[c].user_account_id,
                                         calls[c].asset_type_id)
               /\ UNCHANGED <<accounts, asset_types>>
        /\ (calls'[c] # calls[c] /\ ~SuccessOf(c)) => UNCHANGED store

\* C27: a successful top_up, bonus or spend for user u and asset type a
\* changes only the balances of (u, a) and (Treasury, a), by opposite
\* amounts; every other balance is unchanged and no account or asset type
\* row is created, changed or deleted; no other step of a call changes a
\* committed row.
C27_OnlyUserAndTreasuryChange ==
    [][C27_Step]_vars

\* A spend and a credit for different users have committed: the treasury's
\* GOLD has moved by their net amount and no other asset type has moved.
C27_Witness ==
    \E c, d \in Calls :
        /\ Wrote(c) /\ calls[c].op = SPEND
        /\ Wrote(d) /\ calls[d].op = BONUS
        /\ calls[c].user_account_id # calls[d].user_account_id
        /\ GetBalance(ledger_entries, Treasury, GOLD) =
               GetBalance(SeedRows, Treasury, GOLD) + calls[c].amount - calls[d].amount
        /\ GetBalance(ledger_entries, Treasury, DIAMONDS) =
               GetBalance(SeedRows, Treasury, DIAMONDS)

====
